---- MODULE Spec2Model ----
(***************************************************************************)
(* Dependency resolution and task lifecycle of the cycling metascheduler.  *)
(*                                                                         *)
(* src/tasks.py holds the task classes (task_base, runahead_task_base and  *)
(* the concrete classes).  The modules it imports (reference_time,         *)
(* requisites) and the scheduler loop that owns the task pool are not part *)
(* of the source tree: they follow sections 4.1, 4.2 and 4.5 of the        *)
(* specification.                                                          *)
(*                                                                         *)
(* A reference time YYYYMMDDHH is the integer int(ref_time) the code        *)
(* compares; a message text or requisite token "<pre><stamp><suf>" is the  *)
(* triple <<pre, stamp, suf>>.  The display-only attribute latest_message  *)
(* and the informational minute offsets of timed requisites are left out:  *)
(* no control decision reads them.                                         *)
(***************************************************************************)
EXTENDS Integers, Sequences, FiniteSets, TLC

VARIABLES
    pool,              \* the scheduler's list of task instances ("tasks")
    valid_hours,       \* class attribute valid_hours, one list per class
    phase,             \* position of the scheduler loop
    idx,               \* index of the instance the current pass is at
    dummy_clock_rate,  \* 0: real mode, otherwise dummy mode
    stop,              \* the last cycle of the run
    call,              \* arguments of the last observed call
    catchup_mode,      \* class attribute topnet.catchup_mode
    job                \* a job's TaskMessage object and its status file

vars == <<pool, valid_hours, phase, idx, dummy_clock_rate, stop, call,
          catchup_mode, job>>

----------------------------------------------------------------------------
(* Bounds *)

\* last day of January 2011 on which the scheduler still creates cycles
MaxDay == 3

\* the dummy clock rate used in dummy mode
DummyRate == 10

----------------------------------------------------------------------------
(* Reference-time arithmetic (module reference_time, spec section 4.1) *)

JanBase == 2011010000
DecBase == 2010120000

Hour(rt) == rt % 100

\* hours since 2011010100; stamps of December 2010 are negative
StampToHours(rt) ==
    IF rt >= JanBase
      THEN (((rt \div 100) % 100) - 1) * 24 + Hour(rt)
      ELSE (((rt \div 100) % 100) - 32) * 24 + Hour(rt)

HoursToStamp(n) ==
    IF n >= 0
      THEN JanBase + ((n \div 24) + 1) * 100 + (n % 24)
      ELSE DecBase + (32 + (n \div 24)) * 100 + (n % 24)

increment(rt, hours) == HoursToStamp(StampToHours(rt) + hours)

decrement(rt, hours) == HoursToStamp(StampToHours(rt) - hours)

LastStamp == JanBase + MaxDay * 100 + 23

----------------------------------------------------------------------------
(* Requisite sets (module requisites, spec section 4.2): an ordered list  *)
(* of tokens, each with a satisfied flag.                                  *)

Req(token) == [req |-> token, sat |-> FALSE]

requisites(tokens) == [i \in 1..Len(tokens) |-> Req(tokens[i])]

timed_requisites(tokens) == requisites(tokens)

requisite_exists(reqs, token) == \E i \in 1..Len(reqs) : reqs[i].req = token

is_satisfied(reqs, token) ==
    \E i \in 1..Len(reqs) : reqs[i].req = token /\ reqs[i].sat

set_satisfied(reqs, token) ==
    [i \in 1..Len(reqs) |->
        IF reqs[i].req = token THEN [reqs[i] EXCEPT !.sat = TRUE] ELSE reqs[i]]

set_all_satisfied(reqs) == [i \in 1..Len(reqs) |-> [reqs[i] EXCEPT !.sat = TRUE]]

all_satisfied(reqs) == \A i \in 1..Len(reqs) : reqs[i].sat

\* for each of my prerequisites, if a matching postrequisite in other is
\* satisfied, mark mine satisfied
satisfy_me(reqs, other) ==
    [i \in 1..Len(reqs) |->
        IF is_satisfied(other, reqs[i].req)
          THEN [reqs[i] EXCEPT !.sat = TRUE]
          ELSE reqs[i]]

\* fuzzy_requisites: a requisite is a pattern until it is sharpened
fuzzy_requisites(tokens) ==
    [i \in 1..Len(tokens) |-> [req |-> tokens[i], sat |-> FALSE, fuzzy |-> TRUE]]

\* the container is a fuzzy_requisites object
IsFuzzy(reqs) == Len(reqs) > 0 /\ "fuzzy" \in DOMAIN reqs[1]

\* a token matches a pattern that has the same text around the stamp and a
\* stamp (the cutoff) not later than the token's
fuzzy_match(pattern, token) ==
    /\ token[1] = pattern[1]
    /\ token[3] = pattern[3]
    /\ token[2] >= pattern[2]

\* for each of my prerequisites not yet satisfied, if satisfied
\* postrequisites in other match it, sharpen it to the greatest of them
\* (tokens that match one pattern differ in the stamp only) and mark it
\* satisfied; a sharpened prerequisite is left as it is
fuzzy_satisfy_me(reqs, other) ==
    [i \in 1..Len(reqs) |->
        LET matches == {k \in 1..Len(other) :
                           other[k].sat /\ fuzzy_match(reqs[i].req, other[k].req)}
            best    == CHOOSE k \in matches :
                           \A l \in matches : other[l].req[2] <= other[k].req[2]
        IN  IF ~reqs[i].sat /\ matches /= {}
              THEN [reqs[i] EXCEPT !.req = other[best].req, !.sat = TRUE]
              ELSE reqs[i]]

\* method resolution of satisfy_me: the class of the container
SatisfyMeOf(reqs, other) ==
    IF IsFuzzy(reqs) THEN fuzzy_satisfy_me(reqs, other) ELSE satisfy_me(reqs, other)

----------------------------------------------------------------------------
(* Task classes (src/tasks.py) *)

Classes ==
    {"downloader", "oper_to_topnet", "nzlam", "nztide", "globalprep", "globalwave",
     "topnet"}

\* classes derived from runahead_task_base
RunaheadClasses == {"downloader", "oper_to_topnet", "nztide"}

\* the class attribute valid_hours as written in each class body
DeclaredValidHours(name) ==
    CASE name = "downloader" -> <<0, 6, 12, 18>>
      [] name = "nzlam"      -> <<0, 6, 12, 18>>
      [] name = "nztide"     -> <<6, 18>>
      [] name = "globalprep" -> <<0>>
      [] name = "globalwave" -> <<0>>
      [] name = "oper_to_topnet" -> <<6, 18>>
      [] name = "topnet"     -> [h \in 1..24 |-> h - 1]

MAX_FINISHED == 4

Tok(pre, rt, suf) == <<pre, rt, suf>>

\* no prerequisites: this is The Initial Task
downloader_prerequisites(rt) == requisites(<< >>)

downloader_postrequisites(rt) ==
    LET hour   == Hour(rt)
        lbc_06 == decrement(rt, 6)
        lbc_12 == decrement(rt, 12)
    IN  CASE hour = 0 ->
                timed_requisites(<<
                    Tok("downloader started for ", rt, ""),
                    Tok("file obstore_", rt, ".um ready"),
                    Tok("file bgerr", rt, ".um ready"),
                    Tok("file lbc_", lbc_12, ".um ready"),
                    Tok("file 10mwind_", rt, ".um ready"),
                    Tok("file seaice_", rt, ".um ready"),
                    Tok("file dump_", rt, ".um ready"),
                    Tok("downloader finished for ", rt, "") >>)
          [] hour = 12 ->
                timed_requisites(<<
                    Tok("downloader started for ", rt, ""),
                    Tok("file obstore_", rt, ".um ready"),
                    Tok("file bgerr", rt, ".um ready"),
                    Tok("file lbc_", lbc_12, ".um ready"),
                    Tok("downloader finished for ", rt, "") >>)
          [] hour \in {6, 18} ->
                timed_requisites(<<
                    Tok("downloader started for ", rt, ""),
                    Tok("file lbc_", lbc_06, ".um ready"),
                    Tok("file obstore_", rt, ".um ready"),
                    Tok("file bgerr", rt, ".um ready"),
                    Tok("downloader finished for ", rt, "") >>)

nzlam_prerequisites(rt) ==
    LET hour   == Hour(rt)
        lbc_06 == decrement(rt, 6)
        lbc_12 == decrement(rt, 12)
    IN  CASE hour \in {0, 12} ->
                requisites(<<
                    Tok("file obstore_", rt, ".um ready"),
                    Tok("file bgerr", rt, ".um ready"),
                    Tok("file lbc_", lbc_12, ".um ready") >>)
          [] hour \in {6, 18} ->
                requisites(<<
                    Tok("file obstore_", rt, ".um ready"),
                    Tok("file bgerr", rt, ".um ready"),
                    Tok("file lbc_", lbc_06, ".um ready") >>)

nzlam_postrequisites(rt) ==
    CASE Hour(rt) \in {0, 12} ->
            timed_requisites(<<
                Tok("nzlam started for ", rt, ""),
                Tok("file sls_", rt, ".um ready"),
                Tok("nzlam finished for ", rt, "") >>)
      [] Hour(rt) \in {6, 18} ->
            timed_requisites(<<
                Tok("nzlam started for ", rt, ""),
                Tok("file tn_", rt, ".um ready"),
                Tok("file sls_", rt, ".um ready"),
                Tok("file met_", rt, ".um ready"),
                Tok("nzlam finished for ", rt, "") >>)

nztide_prerequisites(rt) == requisites(<< >>)

nztide_postrequisites(rt) ==
    timed_requisites(<<
        Tok("nztide started for ", rt, ""),
        Tok("file nztide_", rt, ".nc ready"),
        Tok("nztide finished for ", rt, "") >>)

globalprep_prerequisites(rt) ==
    requisites(<<
        Tok("file 10mwind_", rt, ".um ready"),
        Tok("file seaice_", rt, ".um ready") >>)

globalprep_postrequisites(rt) ==
    timed_requisites(<<
        Tok("globalprep started for ", rt, ""),
        Tok("file 10mwind_", rt, ".nc ready"),
        Tok("file seaice_", rt, ".nc ready"),
        Tok("globalprep finished for ", rt, "") >>)

globalwave_prerequisites(rt) ==
    requisites(<<
        Tok("file 10mwind_", rt, ".nc ready"),
        Tok("file seaice_", rt, ".nc ready") >>)

globalwave_postrequisites(rt) ==
    timed_requisites(<<
        Tok("globalwave started for ", rt, ""),
        Tok("file globalwave_", rt, ".nc ready"),
        Tok("globalwave finished for ", rt, "") >>)

\* no prerequisites: this is The Initial Task
oper_to_topnet_prerequisites(rt) == requisites(<< >>)

oper_to_topnet_postrequisites(rt) ==
    timed_requisites(<<
        Tok("oper_to_topnet started for ", rt, ""),
        Tok("file tn_", rt, ".nc ready"),
        Tok("oper_to_topnet finished for ", rt, "") >>)

\* the topnet prerequisite with the two cutoffs the other way round
topnet_prerequisites_swapped(rt) ==
    LET nzlam_cutoff == IF catchup_mode THEN decrement(rt, 23) ELSE decrement(rt, 11)
    IN  fuzzy_requisites(<< Tok("file tn_", nzlam_cutoff, ".nc ready") >>)

\* the class attribute catchup_mode is read when the instance is made
topnet_prerequisites(rt) ==
    LET nzlam_cutoff == IF catchup_mode THEN decrement(rt, 11) ELSE decrement(rt, 23)
    IN  fuzzy_requisites(<< Tok("file tn_", nzlam_cutoff, ".nc ready") >>)

topnet_postrequisites(rt) ==
    timed_requisites(<<
        Tok("streamflow extraction started for ", rt, ""),
        Tok("got streamflow data for ", rt, ""),
        Tok("streamflow extraction finished for ", rt, ""),
        Tok("topnet started for ", rt, ""),
        Tok("file topnet_", rt, ".nc ready"),
        Tok("topnet finished for ", rt, "") >>)

ClassPrerequisites(name, rt) ==
    CASE name = "downloader" -> downloader_prerequisites(rt)
      [] name = "nzlam"      -> nzlam_prerequisites(rt)
      [] name = "nztide"     -> nztide_prerequisites(rt)
      [] name = "globalprep" -> globalprep_prerequisites(rt)
      [] name = "globalwave" -> globalwave_prerequisites(rt)
      [] name = "oper_to_topnet" -> oper_to_topnet_prerequisites(rt)
      [] name = "topnet"     -> topnet_prerequisites(rt)

ClassPostrequisites(name, rt) ==
    CASE name = "downloader" -> downloader_postrequisites(rt)
      [] name = "nzlam"      -> nzlam_postrequisites(rt)
      [] name = "nztide"     -> nztide_postrequisites(rt)
      [] name = "globalprep" -> globalprep_postrequisites(rt)
      [] name = "globalwave" -> globalwave_postrequisites(rt)
      [] name = "oper_to_topnet" -> oper_to_topnet_postrequisites(rt)
      [] name = "topnet"     -> topnet_postrequisites(rt)

----------------------------------------------------------------------------
(* task_base *)

InitialStates == {"", "waiting", "ready", "finished"}

\* the comparison of the loop written as rh < vh
FirstAtLeast_strict(foo, rh) ==
    CHOOSE i \in 1..Len(foo) :
        /\ rh < foo[i]
        /\ \A j \in 1..(i - 1) : ~(rh < foo[j])

\* index of the first element of the list foo that is >= rh
FirstAtLeast(foo, rh) ==
    CHOOSE i \in 1..Len(foo) :
        /\ rh <= foo[i]
        /\ \A j \in 1..(i - 1) : ~(rh <= foo[j])

\* nearest_ref_time whose appended element is 24 rather than 24 + first_vh
nearest_ref_time_extra24(vh, rt) ==
    LET rh       == Hour(rt)
        extra_vh == 24
        foo      == Append(vh, extra_vh)
        incr     == foo[FirstAtLeast(foo, rh)] - rh
    IN  [rt |-> increment(rt, incr), valid_hours |-> foo]

\* nearest_ref_time whose loop has no break: the last element that is
\* >= rh (the appended one) decides the increment
nearest_ref_time_no_break(vh, rt) ==
    LET rh       == Hour(rt)
        first_vh == vh[1]
        extra_vh == 24 + first_vh
        foo      == Append(vh, extra_vh)
        incr     == foo[Len(foo)] - rh
    IN  [rt |-> increment(rt, incr), valid_hours |-> foo]

\* nearest_ref_time appends to the class's own list (foo is an alias of
\* self.valid_hours), so it yields the new list beside the adjusted time
nearest_ref_time(vh, rt) ==
    LET rh       == Hour(rt)
        first_vh == vh[1]
        extra_vh == 24 + first_vh
        foo      == Append(vh, extra_vh)
        incr     == foo[FirstAtLeast(foo, rh)] - rh
    IN  [rt |-> increment(rt, incr), valid_hours |-> foo]

IndexOf(vh, h) ==
    CHOOSE i \in 1..Len(vh) : vh[i] = h /\ \A j \in 1..(i - 1) : vh[j] /= h

\* next_ref_time whose increment is the next valid hour itself
next_ref_time_no_subtraction(vh, self) ==
    LET n_times == Len(vh)
        i_now   == IndexOf(vh, Hour(self.ref_time))
        incr    == IF n_times = 1 THEN 24
                   ELSE IF i_now < n_times THEN vh[i_now + 1]
                   ELSE vh[1] + 24 - vh[i_now]
    IN  increment(self.ref_time, incr)

next_ref_time(vh, self) ==
    LET n_times == Len(vh)
        i_now   == IndexOf(vh, Hour(self.ref_time))
        incr    == IF n_times = 1 THEN 24
                   ELSE IF i_now < n_times THEN vh[i_now + 1] - vh[i_now]
                   ELSE vh[1] + 24 - vh[i_now]
    IN  increment(self.ref_time, incr)

\* task_base.__init__ that leaves the prerequisites of an instance starting
\* in the ready state as the class defined them
task_base_init_ready_unsatisfied(self, initial_state) ==
    CASE initial_state \in {"", "waiting", "ready"} ->
            [self EXCEPT !.state = "waiting"]
      [] initial_state = "finished" ->
            [self EXCEPT !.state = "finished",
                         !.postrequisites = set_all_satisfied(@)]

\* task_base.__init__ that leaves the postrequisites of an instance starting
\* in the finished state as the class defined them
task_base_init_unmarked(self, initial_state) ==
    CASE initial_state \in {"", "waiting"} ->
            [self EXCEPT !.state = "waiting"]
      [] initial_state = "finished" ->
            [self EXCEPT !.state = "finished"]
      [] initial_state = "ready" ->
            [self EXCEPT !.state = "waiting",
                         !.prerequisites = set_all_satisfied(@)]

\* task_base.__init__: the requisites are altered by the initial state
task_base_init(self, initial_state) ==
    CASE initial_state \in {"", "waiting"} ->
            [self EXCEPT !.state = "waiting"]
      [] initial_state = "finished" ->
            [self EXCEPT !.state = "finished",
                         !.postrequisites = set_all_satisfied(@)]
      [] initial_state = "ready" ->
            [self EXCEPT !.state = "waiting",
                         !.prerequisites = set_all_satisfied(@)]

\* a derived class's __init__: adjust the reference time, define the
\* requisites, then call the base class initialisation
NewTask(name, vh, rt, initial_state) ==
    LET near == nearest_ref_time(vh, rt)
        raw  == [name           |-> name,
                 ref_time       |-> near.rt,
                 state          |-> "waiting",
                 abdicated      |-> FALSE,
                 prerequisites  |-> ClassPrerequisites(name, near.rt),
                 postrequisites |-> ClassPostrequisites(name, near.rt)]
    IN  [task |-> task_base_init(raw, initial_state), valid_hours |-> near.valid_hours]

run_external_dummy(self, rate) == [self EXCEPT !.state = "running"]

\* the base class method: no class of src/tasks.py overrides it
run_external_task(self) == self

\* Blocked with the comparison of the reference times turned round
Blocked_reversed(self, tasks) ==
    \E i \in 1..Len(tasks) :
        /\ tasks[i].name = self.name
        /\ tasks[i].state /= "finished"
        /\ tasks[i].ref_time > self.ref_time

\* some instance of my class with an earlier reference time is unfinished
Blocked(self, tasks) ==
    \E i \in 1..Len(tasks) :
        /\ tasks[i].name = self.name
        /\ tasks[i].state /= "finished"
        /\ tasks[i].ref_time < self.ref_time

\* run_if_ready without the test for an instance that is finished already
run_if_ready_rerun(self, tasks, rate) ==
    IF Blocked(self, tasks) THEN self
    ELSE IF self.state = "running" THEN self
    ELSE IF all_satisfied(self.prerequisites)
      THEN IF rate /= 0 THEN run_external_dummy(self, rate)
                        ELSE run_external_task(self)
    ELSE self

\* run_if_ready without the test of the prerequisites
run_if_ready_unconditional(self, tasks, rate) ==
    IF Blocked(self, tasks) THEN self
    ELSE IF self.state = "finished" THEN self
    ELSE IF self.state = "running" THEN self
    ELSE IF rate /= 0 THEN run_external_dummy(self, rate)
                      ELSE run_external_task(self)

run_if_ready(self, tasks, rate) ==
    IF Blocked(self, tasks) THEN self
    ELSE IF self.state = "finished" THEN self
    ELSE IF self.state = "running" THEN self
    ELSE IF all_satisfied(self.prerequisites)
      THEN IF rate /= 0 THEN run_external_dummy(self, rate)
                        ELSE run_external_task(self)
    ELSE self

set_finished(self) == [self EXCEPT !.state = "finished"]

\* abdicate without the test of the abdicated flag
abdicate_repeated(self) ==
    IF self.state = "finished"
      THEN [task |-> [self EXCEPT !.abdicated = TRUE], ret |-> TRUE]
      ELSE [task |-> self, ret |-> FALSE]

\* abdicate without the test of the state
abdicate_any_state(self) ==
    IF ~self.abdicated
      THEN [task |-> [self EXCEPT !.abdicated = TRUE], ret |-> TRUE]
      ELSE [task |-> self, ret |-> FALSE]

\* abdicate: the instance afterwards, and the value returned
abdicate(self) ==
    IF self.state = "finished" /\ ~self.abdicated
      THEN [task |-> [self EXCEPT !.abdicated = TRUE], ret |-> TRUE]
      ELSE [task |-> self, ret |-> FALSE]

RECURSIVE SatisfyFrom(_, _, _)
SatisfyFrom(prereqs, tasks, k) ==
    IF k > Len(tasks) THEN prereqs
    ELSE SatisfyFrom(SatisfyMeOf(prereqs, tasks[k].postrequisites), tasks, k + 1)

\* get_satisfaction that starts every pass from unsatisfied prerequisites
get_satisfaction_from_scratch(self, tasks) ==
    [self EXCEPT !.prerequisites =
        SatisfyFrom([k \in 1..Len(@) |-> [@[k] EXCEPT !.sat = FALSE]], tasks, 1)]

get_satisfaction(self, tasks) ==
    [self EXCEPT !.prerequisites = SatisfyFrom(@, tasks, 1)]

\* incoming that takes a CRITICAL message that names no postrequisite as the
\* failure of the job
incoming_critical_fails(self, priority, message) ==
    LET posts == IF requisite_exists(self.postrequisites, message)
                   THEN set_satisfied(self.postrequisites, message)
                   ELSE self.postrequisites
        marked == [self EXCEPT !.postrequisites = posts]
    IN  IF ~requisite_exists(self.postrequisites, message) /\ priority = "CRITICAL"
          THEN [self EXCEPT !.state = "failed"]
        ELSE IF all_satisfied(posts) THEN set_finished(marked) ELSE marked

\* incoming that drops the message of an instance that is not running
incoming_running_only(self, priority, message) ==
    LET posts == IF requisite_exists(self.postrequisites, message)
                   THEN set_satisfied(self.postrequisites, message)
                   ELSE self.postrequisites
        marked == [self EXCEPT !.postrequisites = posts]
    IN  IF self.state /= "running" THEN self
        ELSE IF all_satisfied(posts) THEN set_finished(marked) ELSE marked

\* incoming that takes the message of a postrequisite that is already
\* satisfied as its withdrawal
incoming_flip(self, priority, message) ==
    LET posts == IF requisite_exists(self.postrequisites, message)
                   THEN IF is_satisfied(self.postrequisites, message)
                          THEN [i \in 1..Len(self.postrequisites) |->
                                  IF self.postrequisites[i].req = message
                                    THEN [self.postrequisites[i] EXCEPT !.sat = FALSE]
                                    ELSE self.postrequisites[i]]
                          ELSE set_satisfied(self.postrequisites, message)
                   ELSE self.postrequisites
        marked == [self EXCEPT !.postrequisites = posts]
    IN  IF all_satisfied(posts) THEN set_finished(marked) ELSE marked

\* incoming that finishes the instance on its last postrequisite's message
\* ("<name> finished for <ref_time>") instead of on all of them
incoming_on_last(self, priority, message) ==
    LET posts == IF requisite_exists(self.postrequisites, message)
                   THEN set_satisfied(self.postrequisites, message)
                   ELSE self.postrequisites
        marked == [self EXCEPT !.postrequisites = posts]
    IN  IF posts[Len(posts)].sat THEN set_finished(marked) ELSE marked

incoming(self, priority, message) ==
    LET posts == IF requisite_exists(self.postrequisites, message)
                   THEN set_satisfied(self.postrequisites, message)
                   ELSE self.postrequisites
        marked == [self EXCEPT !.postrequisites = posts]
    IN  IF all_satisfied(posts) THEN set_finished(marked) ELSE marked

----------------------------------------------------------------------------
(* topnet *)

\* texts that match "^CATCHUP:.*for " and "^UPTODATE:.*for " up to the stamp
CatchupPrefixes == {"CATCHUP: for ", "CATCHUP: topnet for "}
UptodatePrefixes == {"UPTODATE: for ", "UPTODATE: topnet for "}

\* self.catchup_re.match( message ), self.uptodate_re.match( message ): the
\* patterns are compiled from the reference time the constructor is given,
\* which is the instance's own (every hour is a valid hour of topnet), and
\* are not anchored at the end
catchup_re_match(self, message) ==
    message[1] \in CatchupPrefixes /\ message[2] = self.ref_time

uptodate_re_match(self, message) ==
    message[1] \in UptodatePrefixes /\ message[2] = self.ref_time

\* the override that takes a mode signal for any reference time
topnet_incoming_mode_any_ref_time(self, mode, message) ==
    IF ~mode /\ message[1] \in CatchupPrefixes THEN TRUE
    ELSE IF mode /\ message[1] \in UptodatePrefixes THEN FALSE
    ELSE mode

\* topnet.incoming after the base class handling: the value it leaves in
\* topnet.catchup_mode
topnet_incoming_mode(self, mode, message) ==
    IF ~mode /\ catchup_re_match(self, message) THEN TRUE
    ELSE IF mode /\ uptodate_re_match(self, message) THEN FALSE
    ELSE mode

\* method resolution of incoming: only topnet overrides it
IncomingModeOf(self, mode, message) ==
    IF self.name = "topnet" THEN topnet_incoming_mode(self, mode, message) ELSE mode

----------------------------------------------------------------------------
(* runahead_task_base *)

old_and_finished(self, tasks) ==
    {i \in 1..Len(tasks) : tasks[i].name = self.name /\ tasks[i].state = "finished"}

\* the runahead test off by one: more than MAX_FINISHED
runahead_run_if_ready_off_by_one(self, tasks, rate) ==
    LET delay == /\ self.state = "waiting"
                 /\ Cardinality(old_and_finished(self, tasks)) > MAX_FINISHED
    IN  IF delay THEN self ELSE run_if_ready(self, tasks, rate)

\* the override without the runahead test
runahead_run_if_ready_unlimited(self, tasks, rate) ==
    run_if_ready(self, tasks, rate)

runahead_run_if_ready(self, tasks, rate) ==
    LET delay == /\ self.state = "waiting"
                 /\ Cardinality(old_and_finished(self, tasks)) >= MAX_FINISHED
    IN  IF delay THEN self ELSE run_if_ready(self, tasks, rate)

\* method resolution: the class of the instance selects the override
RunIfReadyOf(self, tasks, rate) ==
    IF self.name \in RunaheadClasses
      THEN runahead_run_if_ready(self, tasks, rate)
      ELSE run_if_ready(self, tasks, rate)

----------------------------------------------------------------------------
(* The scheduler (spec section 4.5): the pool and one pass per wake-up *)

Exists(tasks, name, rt) ==
    \E i \in 1..Len(tasks) : tasks[i].name = name /\ tasks[i].ref_time = rt

\* insertion without the look-up in the pool's index
AddTask_unchecked(st, name, rt, initial_state) ==
    LET new == NewTask(name, st.valid_hours[name], rt, initial_state)
    IN  [pool        |-> Append(st.pool, new.task),
         valid_hours |-> [st.valid_hours EXCEPT ![name] = new.valid_hours]]

\* construct an instance and insert it unless the pool's (class, ref_time)
\* index already holds one
AddTask(st, name, rt, initial_state) ==
    LET new == NewTask(name, st.valid_hours[name], rt, initial_state)
    IN  [pool        |-> IF Exists(st.pool, name, new.task.ref_time)
                           THEN st.pool
                           ELSE Append(st.pool, new.task),
         valid_hours |-> [st.valid_hours EXCEPT ![name] = new.valid_hours]]

Seed(name, rt, initial_state) == [name |-> name, rt |-> rt, init |-> initial_state]

RECURSIVE SeedPool(_, _)
SeedPool(st, seeds) ==
    IF seeds = << >> THEN st
    ELSE SeedPool(AddTask(st, Head(seeds).name, Head(seeds).rt, Head(seeds).init),
                  Tail(seeds))

\* hour h of the last day / of the day before it
LastDay(h) == JanBase + MaxDay * 100 + h
DayBefore(h) == JanBase + (MaxDay - 1) * 100 + h

\* the start-up configurations explored
Seedings ==
    { << Seed("nztide", 2011010100, "waiting") >>,
      << Seed("nztide", LastDay(6), ""), Seed("nztide", LastDay(18), "ready") >>,
      << Seed("nztide", 2011010103, "finished"), Seed("nztide", 2011010106, "waiting") >>,
      << Seed("globalprep", DayBefore(0), "ready"), Seed("globalwave", DayBefore(0), "waiting") >>,
      << Seed("globalprep", DayBefore(0), "finished"),
         Seed("globalwave", DayBefore(0), "waiting"),
         Seed("globalwave", DayBefore(23), "") >> }

EmptyScheduler ==
    [pool |-> << >>, valid_hours |-> [c \in Classes |-> DeclaredValidHours(c)]]

\* severities of incoming messages
Priorities == {"NORMAL", "WARNING", "CRITICAL", "CUSTOM"}

\* a message that names no postrequisite of any instance
ProgressMessage == Tok("Task job script aborted with ", 0, "ERR")

\* the message texts an external job of the instance may send
\* the mode signals a topnet job may send, for its own reference time and
\* for the next one
ModeSignals(self) ==
    IF self.name = "topnet"
      THEN {Tok(pre, rt, "") : pre \in {"CATCHUP: for ", "UPTODATE: topnet for "},
                               rt \in {self.ref_time, increment(self.ref_time, 1)}}
      ELSE {}

MessagesFor(self) ==
    {self.postrequisites[i].req : i \in 1..Len(self.postrequisites)}
        \cup {ProgressMessage} \cup ModeSignals(self)

\* no call has been observed
NoCall == [op |-> "none"]

\* no job sends messages
NoJob == [status |-> "none"]

Init ==
    /\ \E seeds \in Seedings :
         LET st == SeedPool(EmptyScheduler, seeds)
         IN  pool = st.pool /\ valid_hours = st.valid_hours
    /\ phase = "idle"
    /\ idx = 0
    /\ dummy_clock_rate \in {0, DummyRate}
    /\ stop = LastStamp
    /\ call = NoCall
    /\ catchup_mode = TRUE
    /\ job = NoJob

\* move the loop to the next instance of the pass, or to the next pass
Advance(len, next_phase) ==
    IF idx < len
      THEN phase' = phase /\ idx' = idx + 1
      ELSE phase' = next_phase /\ idx' = (IF next_phase = "idle" THEN 0 ELSE 1)

\* steps 1-2: a message or the periodic tick wakes the loop
StartTick ==
    /\ phase = "idle"
    /\ phase' = "match"
    /\ idx' = 1
    /\ UNCHANGED <<pool, valid_hours, dummy_clock_rate, stop, call, catchup_mode, job>>

\* step 3, one instance: the dependency matching pass
GetSatisfaction ==
    /\ phase = "match"
    /\ idx <= Len(pool)
    /\ pool' = [pool EXCEPT ![idx] = get_satisfaction(pool[idx], pool)]
    /\ Advance(Len(pool), "dispatch")
    /\ UNCHANGED <<valid_hours, dummy_clock_rate, stop, call, catchup_mode, job>>

\* step 4, one instance: the dispatch pass
RunIfReady ==
    /\ phase = "dispatch"
    /\ idx <= Len(pool)
    /\ pool' = [pool EXCEPT ![idx] = RunIfReadyOf(pool[idx], pool, dummy_clock_rate)]
    /\ Advance(Len(pool), "abdicate")
    /\ UNCHANGED <<valid_hours, dummy_clock_rate, stop, call, catchup_mode, job>>

\* step 5, one instance: abdication and creation of the successor.  No
\* successor is created past the last cycle of the run (stop).
Abdicate ==
    /\ phase = "abdicate"
    /\ idx <= Len(pool)
    /\ LET self   == pool[idx]
           succ   == next_ref_time(valid_hours[self.name], self)
           res    == abdicate(self)
           marked == [pool EXCEPT ![idx] = res.task]
           st     == IF res.ret /\ succ <= stop /\ ~Exists(marked, self.name, succ)
                       THEN AddTask([pool |-> marked, valid_hours |-> valid_hours],
                                    self.name, succ, "waiting")
                       ELSE [pool |-> marked, valid_hours |-> valid_hours]
       IN  /\ pool' = st.pool
           /\ valid_hours' = st.valid_hours
           /\ Advance(Len(st.pool), "idle")
    /\ UNCHANGED <<dummy_clock_rate, stop, call, catchup_mode, job>>

\* a pass over an empty pool
EmptyPass ==
    /\ phase \in {"match", "dispatch", "abdicate"}
    /\ idx > Len(pool)
    /\ phase' = "idle"
    /\ idx' = 0
    /\ UNCHANGED <<pool, valid_hours, dummy_clock_rate, stop, call, catchup_mode, job>>

\* a message for instance i is handled between passes
Incoming(i, priority, message) ==
    /\ phase = "idle"
    /\ pool' = [pool EXCEPT ![i] = incoming(pool[i], priority, message)]
    /\ catchup_mode' = IncomingModeOf(pool[i], catchup_mode, message)
    /\ UNCHANGED <<valid_hours, phase, idx, dummy_clock_rate, stop, call, job>>

\* some live instance still waits for a postrequisite of instance i
DependedOn(tasks, i) ==
    \E j \in 1..Len(tasks) : \E k \in 1..Len(tasks[j].prerequisites) :
        /\ j /= i
        /\ ~tasks[j].prerequisites[k].sat
        /\ IF IsFuzzy(tasks[j].prerequisites)
             THEN \E l \in 1..Len(tasks[i].postrequisites) :
                     fuzzy_match(tasks[j].prerequisites[k].req,
                                 tasks[i].postrequisites[l].req)
             ELSE requisite_exists(tasks[i].postrequisites,
                                   tasks[j].prerequisites[k].req)

Remove(tasks, i) ==
    [k \in 1..(Len(tasks) - 1) |-> IF k < i THEN tasks[k] ELSE tasks[k + 1]]

\* step 6: retirement of an abdicated instance nothing depends on
Retire(i) ==
    /\ phase = "idle"
    /\ pool[i].abdicated
    /\ ~DependedOn(pool, i)
    /\ pool' = Remove(pool, i)
    /\ UNCHANGED <<valid_hours, phase, idx, dummy_clock_rate, stop, call, catchup_mode, job>>

Next ==
    \/ StartTick
    \/ GetSatisfaction
    \/ RunIfReady
    \/ Abdicate
    \/ EmptyPass
    \/ \E i \in 1..Len(pool), p \in Priorities :
          \E m \in MessagesFor(pool[i]) : Incoming(i, p, m)
    \/ \E i \in 1..Len(pool) : Retire(i)

Spec == Init /\ [][Next]_vars

----------------------------------------------------------------------------
(* Construction of instances: the constructor and the reference time       *)
(* functions under repeated calls.  The pool holds the instance made by    *)
(* the last call; the class attributes keep what every call left in them.  *)

MaxConstructions == 2

\* the cycles a constructor is asked for: every hour of 1 January 2011
RequestStamps == {JanBase + 100 + h : h \in 0..23}

\* the classes constructed: one of each declared list of valid hours met
\* in the module (four hours, two hours, one hour)
ConstructClasses == {"nzlam", "nztide", "globalprep"}

\* the strings handed to a constructor as initial_state
RequestedStates == InitialStates \cup {"running"}

\* number of constructor calls so far: each call appends one element to the
\* valid_hours list of its class
RECURSIVE Appended(_)
Appended(cs) ==
    IF cs = {} THEN 0
    ELSE LET c == CHOOSE x \in cs : TRUE
         IN  Len(valid_hours[c]) - Len(DeclaredValidHours(c)) + Appended(cs \ {c})

InitConstruct ==
    /\ pool = EmptyScheduler.pool
    /\ valid_hours = EmptyScheduler.valid_hours
    /\ phase = "idle"
    /\ idx = 0
    /\ dummy_clock_rate = 0
    /\ stop = LastStamp
    /\ call = NoCall
    /\ catchup_mode = TRUE
    /\ job = NoJob

\* name(rt, initial_state): the derived __init__ adjusts the reference time
\* and builds the requisites, then task_base.__init__ looks at the initial
\* state and ends the process (sys.exit(1)) when it does not know it
Construct(name, rt, initial_state) ==
    /\ phase = "idle"
    /\ Appended(Classes) < MaxConstructions
    /\ LET adj == nearest_ref_time(valid_hours[name], rt)
       IN  /\ valid_hours' = [valid_hours EXCEPT ![name] = adj.valid_hours]
           /\ IF initial_state \in InitialStates
                THEN /\ pool' = << NewTask(name, valid_hours[name], rt, initial_state).task >>
                     /\ phase' = phase
                ELSE /\ pool' = pool
                     /\ phase' = "exited"
    /\ call' = [op |-> "construct", name |-> name, rt |-> rt,
                initial_state |-> initial_state]
    /\ UNCHANGED <<idx, dummy_clock_rate, stop, catchup_mode, job>>

\* name(self.next_ref_time(), "waiting"): the successor of the instance
Successor ==
    /\ phase = "idle"
    /\ pool /= << >>
    /\ Appended(Classes) < MaxConstructions
    /\ LET self == pool[1]
           succ == next_ref_time(valid_hours[self.name], self)
           new  == NewTask(self.name, valid_hours[self.name], succ, "waiting")
       IN  /\ succ <= stop
           /\ pool' = << new.task >>
           /\ valid_hours' = [valid_hours EXCEPT ![self.name] = new.valid_hours]
           /\ call' = [op |-> "successor", name |-> self.name, rt |-> self.ref_time,
                       initial_state |-> "waiting"]
    /\ UNCHANGED <<phase, idx, dummy_clock_rate, stop, catchup_mode, job>>

NextConstruct ==
    \/ \E name \in ConstructClasses, rt \in RequestStamps, initial_state \in RequestedStates :
          Construct(name, rt, initial_state)
    \/ Successor

SpecConstruct == InitConstruct /\ [][NextConstruct]_vars

----------------------------------------------------------------------------
(* The download and forecast classes with the launches observed: the      *)
(* scheduler of above, started on downloader and nzlam instances, with the *)
(* status every os.system call returns kept in call.                       *)

\* the cycles of the first day that downloader and nzlam run at
JobCycles == {2011010100, 2011010106, 2011010112, 2011010118}

\* start-up configurations: the seeded instances and the last cycle
JobSeedings ==
    { [seeds |-> << Seed("downloader", 2011010100, "waiting") >>,
       stop  |-> 2011010106],
      [seeds |-> << Seed("downloader", 2011010112, "waiting"),
                    Seed("nzlam", 2011010112, "waiting") >>,
       stop  |-> 2011010112] }
    \cup { [seeds |-> << Seed("downloader", t, "finished"), Seed("nzlam", t, "waiting") >>,
            stop  |-> t] : t \in JobCycles }

\* what os.system may return: 0, or the status of a launch that failed
ExitStatuses == {0, 1}

InitJobs ==
    /\ \E seeding \in JobSeedings :
         LET st == SeedPool(EmptyScheduler, seeding.seeds)
         IN  pool = st.pool /\ valid_hours = st.valid_hours /\ stop = seeding.stop
    /\ phase = "idle"
    /\ idx = 0
    /\ dummy_clock_rate \in {0, DummyRate}
    /\ call = NoCall
    /\ catchup_mode = TRUE
    /\ job = NoJob

\* the call of run_if_ready on the instance reaches run_external_dummy
LaunchesDummy(self, tasks, rate) ==
    /\ ~(/\ self.name \in RunaheadClasses
         /\ self.state = "waiting"
         /\ Cardinality(old_and_finished(self, tasks)) >= MAX_FINISHED)
    /\ ~Blocked(self, tasks)
    /\ self.state \notin {"finished", "running"}
    /\ all_satisfied(self.prerequisites)
    /\ rate /= 0

\* step 4, one instance, with the os.system call of run_external_dummy
\* observed: the code does not read the status the call returns
RunIfReadyObserved ==
    /\ phase = "dispatch"
    /\ idx <= Len(pool)
    /\ pool' = [pool EXCEPT ![idx] = RunIfReadyOf(pool[idx], pool, dummy_clock_rate)]
    /\ Advance(Len(pool), "abdicate")
    /\ IF LaunchesDummy(pool[idx], pool, dummy_clock_rate)
         THEN \E status \in ExitStatuses :
                 call' = [op |-> "os.system", name |-> pool[idx].name,
                          rt |-> pool[idx].ref_time, status |-> status]
         ELSE call' = NoCall
    /\ UNCHANGED <<valid_hours, dummy_clock_rate, stop, catchup_mode, job>>

NextJobs ==
    \/ StartTick
    \/ GetSatisfaction
    \/ RunIfReadyObserved
    \/ Abdicate
    \/ EmptyPass
    \/ \E i \in 1..Len(pool), p \in Priorities :
          \E m \in MessagesFor(pool[i]) : Incoming(i, p, m)
    \/ \E i \in 1..Len(pool) : Retire(i)

SpecJobs == InitJobs /\ [][NextJobs]_vars

----------------------------------------------------------------------------
(* The fuzzy consumer: the scheduler of above, started on oper_to_topnet   *)
(* and topnet instances.                                                   *)

TopnetSeedings ==
    { [seeds |-> << Seed("oper_to_topnet", 2011010106, "finished"),
                    Seed("oper_to_topnet", 2011010118, "finished"),
                    Seed("topnet", 2011010118, "waiting") >>,
       stop  |-> 2011010119],
      [seeds |-> << Seed("oper_to_topnet", 2010123118, "finished"),
                    Seed("topnet", 2011010100, "waiting") >>,
       stop  |-> 2011010100] }

InitTopnet ==
    /\ catchup_mode = TRUE
    /\ \E seeding \in TopnetSeedings :
         LET st == SeedPool(EmptyScheduler, seeding.seeds)
         IN  pool = st.pool /\ valid_hours = st.valid_hours /\ stop = seeding.stop
    /\ phase = "idle"
    /\ idx = 0
    /\ dummy_clock_rate \in {0, DummyRate}
    /\ call = NoCall
    /\ job = NoJob

SpecTopnet == InitTopnet /\ [][Next]_vars

----------------------------------------------------------------------------
(* task_message.py: TaskMessage._send_by_remote_port.  The process of a    *)
(* job that sends a batch of messages to the suite.  A message of the      *)
(* batch is named by its position.                                         *)

MSG_MAX_TRIES == 7

MaxBatch == 2

\* int(self.env_map.get(KEY_TASK_MSG_MAX_TRIES, self.MSG_MAX_TRIES))
MaxTriesValues == {0, 1, 2, MSG_MAX_TRIES}

\* the subclasses of ClientError that client.put_message raises
ClientErrors == {"ClientError", "ClientInfoError"}

\* the loop is entered: for i in range(1, max_tries + 1); with an empty
\* range or an empty batch nothing is put
send_by_remote_port(n, max_tries) ==
    [status    |-> IF max_tries >= 1 /\ n >= 1 THEN "putting" ELSE "returned",
     n         |-> n,
     max_tries |-> max_tries,
     i         |-> IF max_tries >= 1 THEN 1 ELSE 0,
     pos       |-> 1,
     put       |-> << >>,
     prev      |-> << >>,
     sleeps    |-> 0,
     failed    |-> 0,
     exc       |-> "none",
     outcome   |-> IF max_tries >= 1 /\ n = 0 THEN "sent" ELSE "none"]

\* a successful put that does not end the loop after the last message
put_message_ok_no_break(j) ==
    IF j.pos < j.n
      THEN [j EXCEPT !.put = Append(j.put, j.pos), !.pos = j.pos + 1]
      ELSE IF j.i < j.max_tries
        THEN [j EXCEPT !.i = j.i + 1, !.pos = 1, !.put = << >>,
                       !.prev = Append(j.put, j.pos)]
        ELSE [j EXCEPT !.put = Append(j.put, j.pos), !.pos = j.pos + 1,
                       !.status = "returned", !.outcome = "sent"]

\* client.put_message(self.task_id, self.severity, message) returns; after
\* the last message the else clause of the try statement breaks the loop
put_message_ok(j) ==
    IF j.pos < j.n
      THEN [j EXCEPT !.put = Append(j.put, j.pos), !.pos = j.pos + 1]
      ELSE [j EXCEPT !.put = Append(j.put, j.pos), !.pos = j.pos + 1,
                     !.status = "returned", !.outcome = "sent"]

\* a failed attempt whose retry goes on with the message that failed
put_message_raises_resume(j, exc) ==
    IF j.i >= j.max_tries
      THEN [j EXCEPT !.exc = exc, !.failed = j.failed + 1,
                     !.status = "returned", !.outcome = "dropped"]
      ELSE [j EXCEPT !.exc = exc,
                     !.failed = IF exc = "ClientInfoError" THEN j.failed + 1 ELSE j.failed,
                     !.sleeps = IF exc = "ClientInfoError" THEN j.sleeps ELSE j.sleeps + 1,
                     !.i = j.i + 1, !.prev = j.put, !.put = << >>]

\* client.put_message raises exc: the except clause.  "MESSAGE SEND FAILED"
\* is written when the tries are exhausted or the exception is a
\* ClientInfoError, and there is a sleep otherwise; neither branch leaves
\* the for loop, which ends only when its range is exhausted
put_message_raises(j, exc) ==
    LET warned == j.i >= j.max_tries \/ exc = "ClientInfoError"
        after  == [j EXCEPT !.exc = exc,
                            !.failed = IF warned THEN j.failed + 1 ELSE j.failed,
                            !.sleeps = IF warned THEN j.sleeps ELSE j.sleeps + 1]
    IN  IF j.i >= j.max_tries
          THEN [after EXCEPT !.status = "returned", !.outcome = "dropped"]
          ELSE [after EXCEPT !.i = j.i + 1, !.pos = 1, !.prev = j.put, !.put = << >>]

InitSend ==
    /\ pool = << >>
    /\ valid_hours = EmptyScheduler.valid_hours
    /\ phase = "idle"
    /\ idx = 0
    /\ dummy_clock_rate = 0
    /\ stop = LastStamp
    /\ call = NoCall
    /\ catchup_mode = TRUE
    /\ job = NoJob

\* TaskMessage.send with no job status file to write (CYLC_TASK_LOG_ROOT
\* is not set) and the contact file loaded: _send_by_remote_port begins
SendByRemotePort(n, max_tries) ==
    /\ job.status = "none"
    /\ job' = send_by_remote_port(n, max_tries)
    /\ UNCHANGED <<pool, valid_hours, phase, idx, dummy_clock_rate, stop, call, catchup_mode>>

PutMessage ==
    /\ job.status = "putting"
    /\ job' = put_message_ok(job)
    /\ UNCHANGED <<pool, valid_hours, phase, idx, dummy_clock_rate, stop, call, catchup_mode>>

PutMessageRaises(exc) ==
    /\ job.status = "putting"
    /\ job' = put_message_raises(job, exc)
    /\ UNCHANGED <<pool, valid_hours, phase, idx, dummy_clock_rate, stop, call, catchup_mode>>

NextSend ==
    \/ \E n \in 0..MaxBatch : \E max_tries \in MaxTriesValues :
          SendByRemotePort(n, max_tries)
    \/ PutMessage
    \/ \E exc \in ClientErrors : PutMessageRaises(exc)

SpecSend == InitSend /\ [][NextSend]_vars

----------------------------------------------------------------------------
(* task_message.py: TaskMessage._update_job_status_file.  The status file  *)
(* is the sequence of its lines; the name of a line is held in two parts,  *)
(* so that line.startswith("CYLC_JOB_") is a test on the first.            *)

MaxSends == 2

TASK_OUTPUT_STARTED == Tok("started", 0, "")
TASK_OUTPUT_SUCCEEDED == Tok("succeeded", 0, "")
FAIL_MESSAGE_PREFIX == "Task job script received signal "
ABORT_MESSAGE_PREFIX == "Task job script aborted with "
VACATION_MESSAGE_PREFIX == "Task job script vacated by signal "

NoMessage == Tok("", 0, "")

CYLC_JOB_PID == << "CYLC_JOB_", "PID" >>
CYLC_JOB_INIT_TIME == << "CYLC_JOB_", "INIT_TIME" >>
CYLC_JOB_EXIT == << "CYLC_JOB_", "EXIT" >>
CYLC_JOB_EXIT_TIME == << "CYLC_JOB_", "EXIT_TIME" >>
CYLC_MESSAGE == << "CYLC_", "MESSAGE" >>

\* "%s=%s\n" % (key, ...): one line of the file
Line(key, job_id, time, text, message) ==
    [key |-> key, job_id |-> job_id, time |-> time, text |-> text, message |-> message]

\* "%s=%s|%s|%s\n" % (self.CYLC_MESSAGE, self.true_event_time, self.severity, message)
MessageLine(time, severity, message) == Line(CYLC_MESSAGE, 0, time, severity, message)

\* not line.startswith("CYLC_JOB_")
NotJobLine(line) == line.key[1] /= "CYLC_JOB_"

\* the messages a job sends: the two task outputs, the three lifecycle
\* exceptions and a message of the task's own
StatusMessages ==
    { TASK_OUTPUT_STARTED, TASK_OUTPUT_SUCCEEDED,
      Tok(FAIL_MESSAGE_PREFIX, 0, "SIGTERM"),
      Tok(ABORT_MESSAGE_PREFIX, 0, "ERR"),
      Tok(VACATION_MESSAGE_PREFIX, 0, "15"),
      Tok("file ready for ", 2011010100, "") }

\* the process ids os.getppid() returns: init, or the job's own
ParentPids == {1, 4242}

\* the body of the loop with a vacation message written like any other
write_message_append_only(file, message, time, severity, job_id) ==
    IF message = TASK_OUTPUT_STARTED
      THEN file \o (IF job_id > 1 THEN << Line(CYLC_JOB_PID, job_id, 0, "", NoMessage) >>
                                  ELSE << >>)
                \o << Line(CYLC_JOB_INIT_TIME, 0, time, "", NoMessage) >>
    ELSE IF message = TASK_OUTPUT_SUCCEEDED
      THEN file \o << Line(CYLC_JOB_EXIT, 0, 0, "SUCCEEDED", NoMessage),
                      Line(CYLC_JOB_EXIT_TIME, 0, time, "", NoMessage) >>
    ELSE IF message[1] \in {FAIL_MESSAGE_PREFIX, ABORT_MESSAGE_PREFIX}
      THEN file \o << Line(CYLC_JOB_EXIT, 0, 0, message[3], NoMessage),
                      Line(CYLC_JOB_EXIT_TIME, 0, time, "", NoMessage) >>
    ELSE file \o << MessageLine(time, severity, message) >>

\* the body of "for message in messages": what one message does to the file
write_message(file, message, time, severity, job_id) ==
    IF message = TASK_OUTPUT_STARTED
      THEN file \o (IF job_id > 1 THEN << Line(CYLC_JOB_PID, job_id, 0, "", NoMessage) >>
                                  ELSE << >>)
                \o << Line(CYLC_JOB_INIT_TIME, 0, time, "", NoMessage) >>
    ELSE IF message = TASK_OUTPUT_SUCCEEDED
      THEN file \o << Line(CYLC_JOB_EXIT, 0, 0, "SUCCEEDED", NoMessage),
                      Line(CYLC_JOB_EXIT_TIME, 0, time, "", NoMessage) >>
    ELSE IF message[1] = FAIL_MESSAGE_PREFIX
      THEN file \o << Line(CYLC_JOB_EXIT, 0, 0, message[3], NoMessage),
                      Line(CYLC_JOB_EXIT_TIME, 0, time, "", NoMessage) >>
    ELSE IF message[1] = ABORT_MESSAGE_PREFIX
      THEN file \o << Line(CYLC_JOB_EXIT, 0, 0, message[3], NoMessage),
                      Line(CYLC_JOB_EXIT_TIME, 0, time, "", NoMessage) >>
    ELSE IF message[1] = VACATION_MESSAGE_PREFIX
      THEN SelectSeq(file, NotJobLine) \o << MessageLine(time, severity, message) >>
    ELSE file \o << MessageLine(time, severity, message) >>

\* for message in messages, from the k-th on
RECURSIVE WriteFrom(_, _, _, _, _, _)
WriteFrom(file, messages, k, time, severity, job_id) ==
    IF k > Len(messages) THEN file
    ELSE WriteFrom(write_message(file, messages[k], time, severity, job_id),
                   messages, k + 1, time, severity, job_id)

\* _update_job_status_file: nothing is done when CYLC_TASK_LOG_ROOT is not
\* set or the file cannot be opened
update_job_status_file(file, messages, time, severity, job_id, writable) ==
    IF writable THEN WriteFrom(file, messages, 1, time, severity, job_id) ELSE file

\* the batches a TaskMessage object is given
Batches == UNION {[1..n -> StatusMessages] : n \in 1..MaxBatch}

\* the status file a send finds: absent, or with a line the job script wrote
InitialFiles ==
    { << >>,
      << Line(<< "CYLC_", "BATCH_SYS_NAME" >>, 0, 0, "background", NoMessage) >> }

InitStatusFile ==
    /\ pool = << >>
    /\ valid_hours = EmptyScheduler.valid_hours
    /\ phase = "idle"
    /\ idx = 0
    /\ dummy_clock_rate = 0
    /\ stop = LastStamp
    /\ call = NoCall
    /\ catchup_mode = TRUE
    /\ \E file \in InitialFiles :
         job = [status |-> "file", file |-> file, before |-> file, sends |-> 0,
                batch |-> << >>, written |-> FALSE]

\* TaskMessage(severity = NORMAL).send(messages) on a host where the suite
\* contact file cannot be loaded: the messages are printed and written to
\* the job status file, and send returns.  The time of the send stands for
\* true_event_time.
SendNoSuite(messages, job_id, writable) ==
    /\ job.status = "file"
    /\ job.sends < MaxSends
    /\ job' = [job EXCEPT !.file = update_job_status_file(job.file, messages,
                                        job.sends + 1, "NORMAL", job_id, writable),
                          !.before = job.file,
                          !.sends = job.sends + 1,
                          !.batch = messages,
                          !.written = writable]
    /\ UNCHANGED <<pool, valid_hours, phase, idx, dummy_clock_rate, stop, call, catchup_mode>>

NextStatusFile ==
    \E messages \in Batches : \E job_id \in ParentPids : \E writable \in BOOLEAN :
        SendNoSuite(messages, job_id, writable)

SpecStatusFile == InitStatusFile /\ [][NextStatusFile]_vars

----------------------------------------------------------------------------
(* Runahead: the scheduler of above started on one waiting instance of a   *)
(* runahead-limited class, with nothing retired.  Messages are those of    *)
(* the jobs that have been launched.                                       *)

RunaheadSeedings ==
    { << Seed("nztide", 2011010106, "waiting") >>,
      << Seed("downloader", 2011010100, "waiting") >>,
      << Seed("oper_to_topnet", 2011010106, "waiting") >> }

InitRunahead ==
    /\ \E seeds \in RunaheadSeedings :
         LET st == SeedPool(EmptyScheduler, seeds)
         IN  pool = st.pool /\ valid_hours = st.valid_hours
    /\ phase = "idle"
    /\ idx = 0
    /\ dummy_clock_rate \in {0, DummyRate}
    /\ stop = LastStamp
    /\ call = NoCall
    /\ catchup_mode = TRUE
    /\ job = NoJob

\* a message of the job of instance i: there is a job once the instance
\* has been launched
JobMessage(i, priority, message) ==
    /\ pool[i].state /= "waiting"
    /\ Incoming(i, priority, message)

NextRunahead ==
    \/ StartTick
    \/ GetSatisfaction
    \/ RunIfReady
    \/ Abdicate
    \/ \E i \in 1..Len(pool), p \in Priorities :
          \E m \in MessagesFor(pool[i]) : JobMessage(i, p, m)

SpecRunahead == InitRunahead /\ [][NextRunahead]_vars

----------------------------------------------------------------------------
(* Properties *)

Tasks == 1..Len(pool)

\* instance i before the step and instance j after it are the same instance
SameTask(i, j) ==
    pool[i].name = pool'[j].name /\ pool[i].ref_time = pool'[j].ref_time

Finished(name) ==
    {i \in Tasks : pool[i].name = name /\ pool[i].state = "finished"}

\* the dispatch pass has been over the whole pool
Dispatched == phase = "abdicate"

\* C1: within-class serial dispatch: a dispatch step never moves an instance
\* into running while an instance of the same class with an earlier
\* reference time is in the pool and not finished.
C1_SerialDispatch ==
    [][\A b \in Tasks :
          (/\ phase = "dispatch"
           /\ idx = b
           /\ pool[b].state /= "running"
           /\ pool'[b].state = "running")
          => \A a \in Tasks :
                (pool[a].name = pool[b].name /\ pool[a].ref_time < pool[b].ref_time)
                => pool[a].state = "finished"]_vars

\* a later instance with every prerequisite satisfied has been passed over by
\* the dispatch pass because an earlier one of its class is unfinished
C1_Witness ==
    /\ Dispatched
    /\ dummy_clock_rate /= 0
    /\ \E a \in Tasks, b \in Tasks :
          /\ pool[a].name = pool[b].name
          /\ pool[a].ref_time < pool[b].ref_time
          /\ pool[a].state /= "finished"
          /\ pool[b].state = "waiting"
          /\ all_satisfied(pool[b].prerequisites)
          /\ Cardinality(Finished(pool[b].name)) < MAX_FINISHED

\* C2: runahead bound: in a dispatch step a waiting instance of a
\* runahead-limited class is moved to running only if fewer than MAX_FINISHED
\* finished instances of its class are in the pool; with MAX_FINISHED or more
\* it is still waiting after the step.
C2_RunaheadBound ==
    [][\A b \in Tasks :
          (/\ phase = "dispatch"
           /\ idx = b
           /\ pool[b].name \in RunaheadClasses
           /\ pool[b].state = "waiting"
           /\ Cardinality(Finished(pool[b].name)) >= MAX_FINISHED)
          => pool'[b].state = "waiting"]_vars

\* a runahead-limited instance that nothing else holds back is still waiting
\* after the dispatch pass, MAX_FINISHED finished instances being in the pool
C2_Witness ==
    /\ Dispatched
    /\ dummy_clock_rate /= 0
    /\ \E b \in Tasks :
          /\ pool[b].name \in RunaheadClasses
          /\ pool[b].state = "waiting"
          /\ all_satisfied(pool[b].prerequisites)
          /\ ~Blocked(pool[b], pool)
          /\ Cardinality(Finished(pool[b].name)) >= MAX_FINISHED

\* the steps the state of an instance may take
LifecycleSteps == {<<"waiting", "running">>, <<"running", "finished">>}

\* C3 as stated: the state of an instance changes only by waiting -> running
\* and running -> finished, and a running instance becomes finished exactly
\* when its last unsatisfied postrequisite becomes satisfied.
C3_Original ==
    [][\A i \in Tasks : \A j \in 1..Len(pool') :
          SameTask(i, j) =>
            /\ pool[i].state /= pool'[j].state
                  => <<pool[i].state, pool'[j].state>> \in LifecycleSteps
            /\ pool[i].state = "running"
                  => (pool'[j].state = "finished"
                        <=> (/\ ~all_satisfied(pool[i].postrequisites)
                             /\ all_satisfied(pool'[j].postrequisites)))]_vars

\* C3 amended: the state of an instance changes only by waiting -> running,
\* running -> finished, or waiting -> finished (postrequisite messages that
\* reach an instance which is not running), never backwards; an unfinished
\* instance becomes finished exactly when its last unsatisfied postrequisite
\* becomes satisfied.
C3_Lifecycle ==
    [][\A i \in Tasks : \A j \in 1..Len(pool') :
          SameTask(i, j) =>
            /\ pool[i].state /= pool'[j].state
                  => <<pool[i].state, pool'[j].state>>
                        \in LifecycleSteps \cup {<<"waiting", "finished">>}
            /\ pool[i].state /= "finished"
                  => (pool'[j].state = "finished"
                        <=> (/\ ~all_satisfied(pool[i].postrequisites)
                             /\ all_satisfied(pool'[j].postrequisites)))]_vars

\* in real mode nothing is ever set running, so an instance seeded waiting
\* that is finished went from waiting to finished on its messages alone
C3_Witness ==
    /\ dummy_clock_rate = 0
    /\ \E i \in Tasks :
          /\ pool[i].name = "globalwave"
          /\ pool[i].state = "finished"
          /\ all_satisfied(pool[i].postrequisites)

\* C4: an instance is finished if and only if every one of its
\* postrequisites is satisfied.
C4_FinishedIffAllPosts ==
    \A i \in Tasks :
        pool[i].state = "finished" <=> all_satisfied(pool[i].postrequisites)

\* a finished instance beside a running one that has some of its
\* postrequisites satisfied
C4_Witness ==
    \E i \in Tasks, j \in Tasks :
        /\ pool[i].state = "finished"
        /\ pool[j].state = "running"
        /\ \E k \in 1..Len(pool[j].postrequisites) : pool[j].postrequisites[k].sat

\* C5: an instance enters running only in a dispatch step, and only with all
\* of its prerequisites satisfied.
C5_RunOnlyWhenSatisfied ==
    [][\A i \in Tasks : \A j \in 1..Len(pool') :
          (SameTask(i, j) /\ pool[i].state /= "running" /\ pool'[j].state = "running")
          => /\ phase = "dispatch"
             /\ idx = i
             /\ all_satisfied(pool[i].prerequisites)]_vars

\* an instance with prerequisites, seeded waiting, is running: the matching
\* pass satisfied them
C5_Witness ==
    \E i \in Tasks :
        /\ pool[i].name = "globalwave"
        /\ pool[i].state = "running"
        /\ Len(pool[i].prerequisites) > 0

\* C6 as stated: a dispatch step on a waiting instance with all
\* prerequisites satisfied, no earlier unfinished instance of its class and
\* (runahead-limited classes) fewer than MAX_FINISHED finished ones leaves it
\* running, in dummy mode and in real mode alike.
C6_Original ==
    [][\A b \in Tasks :
          (/\ phase = "dispatch"
           /\ idx = b
           /\ pool[b].state = "waiting"
           /\ all_satisfied(pool[b].prerequisites)
           /\ ~Blocked(pool[b], pool)
           /\ (pool[b].name \in RunaheadClasses
                 => Cardinality(Finished(pool[b].name)) < MAX_FINISHED))
          => pool'[b].state = "running"]_vars

\* C7: abdicate returns true at most once for an instance: an abdication
\* step flips the flag exactly when the instance is finished and has not
\* abdicated, the flag is never reset, and an instance is added to the pool
\* only by the abdication step of an instance whose flag the step flips, as
\* the successor of that instance.
C7_AbdicateOnce ==
    [][/\ \A i \in Tasks : \A j \in 1..Len(pool') :
             (SameTask(i, j) /\ pool[i].abdicated) => pool'[j].abdicated
       /\ (phase = "abdicate" /\ idx \in Tasks)
             => (pool'[idx].abdicated /= pool[idx].abdicated
                   <=> (pool[idx].state = "finished" /\ ~pool[idx].abdicated))
       /\ Len(pool') > Len(pool)
             => /\ phase = "abdicate"
                /\ idx \in Tasks
                /\ ~pool[idx].abdicated
                /\ pool'[idx].abdicated
                /\ Len(pool') = Len(pool) + 1
                /\ pool'[Len(pool')].name = pool[idx].name
                /\ pool'[Len(pool')].ref_time
                      = next_ref_time(valid_hours[pool[idx].name], pool[idx])]_vars

\* an instance has abdicated, its successor is in the pool and has abdicated
\* in its turn
C7_Witness ==
    \E i \in Tasks, j \in Tasks :
        /\ pool[i].name = pool[j].name
        /\ pool[i].abdicated
        /\ pool[j].abdicated
        /\ pool[j].ref_time = next_ref_time(valid_hours[pool[i].name], pool[i])
        /\ phase = "idle"

\* C8: every instance that has abdicated is finished.
C8_AbdicatedFinished ==
    \A i \in Tasks : pool[i].abdicated => pool[i].state = "finished"

\* an abdicated instance beside an unfinished one, after a whole pass
C8_Witness ==
    /\ phase = "idle"
    /\ \E i \in Tasks, j \in Tasks :
          pool[i].abdicated /\ pool[j].state /= "finished"

\* C9: the pool holds at most one instance for each (class, ref_time).
C9_UniqueInstances ==
    \A i \in Tasks, j \in Tasks :
        (pool[i].name = pool[j].name /\ pool[i].ref_time = pool[j].ref_time)
        => i = j

\* a start-up whose two requested cycles (hours 03 and 06) were adjusted to
\* the same valid hour holds one instance of it, and the abdication step has
\* added its successor: the class has been constructed three times
C9_Witness ==
    /\ Len(pool) = 2
    /\ pool[1].name = "nztide" /\ pool[1].ref_time = 2011010106
    /\ pool[1].abdicated
    /\ pool[2].name = "nztide" /\ pool[2].ref_time = 2011010118
    /\ Len(valid_hours["nztide"]) = Len(DeclaredValidHours("nztide")) + 3

\* C10: a satisfied prerequisite or postrequisite of an instance is still
\* satisfied after every step that keeps the instance in the pool.
C10_MonotoneSatisfaction ==
    [][\A i \in Tasks : \A j \in 1..Len(pool') :
          SameTask(i, j) =>
            /\ \A k \in 1..Len(pool[i].prerequisites) :
                  pool[i].prerequisites[k].sat
                  => is_satisfied(pool'[j].prerequisites, pool[i].prerequisites[k].req)
            /\ \A k \in 1..Len(pool[i].postrequisites) :
                  pool[i].postrequisites[k].sat
                  => is_satisfied(pool'[j].postrequisites,
                                  pool[i].postrequisites[k].req)]_vars

\* an instance seeded with its prerequisites satisfied, for which the pool
\* holds no producer, has been through matching passes and is finished
C10_Witness ==
    \E i \in Tasks :
        /\ pool[i].name = "globalprep"
        /\ pool[i].ref_time = DayBefore(0)
        /\ pool[i].abdicated
        /\ all_satisfied(pool[i].prerequisites)
        /\ \E j \in Tasks :
              /\ pool[j].name = "globalwave"
              /\ pool[j].state = "running"
              /\ all_satisfied(pool[j].prerequisites)

\* the declared valid hours of a class as a set
ValidHourSet(name) ==
    {DeclaredValidHours(name)[k] : k \in 1..Len(DeclaredValidHours(name))}

\* the earliest stamp not before rt whose hour is a declared valid hour
Earliest(name, rt) ==
    LET valid == {s \in {increment(rt, k) : k \in 0..47} : Hour(s) \in ValidHourSet(name)}
    IN  CHOOSE s \in valid : \A u \in valid : s <= u

\* the last call constructed an instance
Constructed == call.op = "construct" /\ phase /= "exited"

\* C11: the hour of the reference time of every instance, constructed for
\* an arbitrary requested cycle or as a successor, is one of the declared
\* valid hours of its class, a value in 0..23.
C11_ValidHour ==
    \A i \in Tasks :
        /\ Hour(pool[i].ref_time) \in ValidHourSet(pool[i].name)
        /\ Hour(pool[i].ref_time) \in 0..23

\* the successor over midnight of a nzlam constructed for 18:00
C11_Witness ==
    /\ call.op = "successor"
    /\ call.name = "nzlam"
    /\ call.rt = 2011010118
    /\ pool[1].ref_time = 2011010200
    /\ Len(valid_hours["nzlam"]) = Len(DeclaredValidHours("nzlam")) + 2

\* C12: on every constructor call, repeated calls for one class included,
\* the adjusted reference time is the earliest stamp not before the
\* requested one whose hour is a declared valid hour of the class: the
\* requested stamp itself when its hour is valid, the first valid hour of
\* the next day when its hour is past the last valid hour.
C12_NearestIsEarliest ==
    Constructed =>
        /\ pool[1].ref_time = Earliest(call.name, call.rt)
        /\ (Hour(call.rt) \in ValidHourSet(call.name) => pool[1].ref_time = call.rt)
        /\ (\A h \in ValidHourSet(call.name) : h < Hour(call.rt)) =>
               pool[1].ref_time =
                   increment(call.rt, 24 + DeclaredValidHours(call.name)[1] - Hour(call.rt))

\* the second nzlam constructed is asked for 2011010103 and gets 2011010106
C12_Witness ==
    /\ Constructed
    /\ call.name = "nzlam"
    /\ call.rt = 2011010103
    /\ pool[1].ref_time = 2011010106
    /\ Len(valid_hours["nzlam"]) = Len(DeclaredValidHours("nzlam")) + 2

\* C13: nearest_ref_time is idempotent: applied to its own result, with
\* the class list as the first call left it, it returns that result.
C13_NearestIdempotent ==
    Constructed =>
        nearest_ref_time(valid_hours[call.name], pool[1].ref_time).rt = pool[1].ref_time

\* a request past the last valid hour of the class was moved to the next day
C13_Witness ==
    /\ Constructed
    /\ call.name = "nztide"
    /\ call.rt = 2011010120
    /\ pool[1].ref_time = 2011010206

\* C14: next_ref_time of an instance is the stamp strictly later at the
\* cyclically next valid hour of its class: no valid cycle of the class
\* lies strictly between the two, and a class with a single valid hour
\* steps by 24 hours.
C14_NextIsNextValid ==
    \A i \in Tasks :
        LET self == pool[i]
            succ == next_ref_time(valid_hours[self.name], self)
        IN  /\ succ > self.ref_time
            /\ succ = Earliest(self.name, increment(self.ref_time, 1))
            /\ Hour(succ) \in ValidHourSet(self.name)
            /\ \A k \in 1..47 :
                  LET s == increment(self.ref_time, k)
                  IN  s < succ => Hour(s) \notin ValidHourSet(self.name)
            /\ (Cardinality(ValidHourSet(self.name)) = 1 =>
                  succ = increment(self.ref_time, 24))

\* the successor of nztide(2011010118), the last valid hour of its day
C14_Witness ==
    /\ call.op = "successor"
    /\ call.name = "nztide"
    /\ call.rt = 2011010118
    /\ pool[1].ref_time = 2011010206

PostTokens(self) ==
    {self.postrequisites[k].req : k \in 1..Len(self.postrequisites)}

\* C17: a message that names an unsatisfied postrequisite of an instance
\* that is not running is processed all the same: it marks that
\* postrequisite, and nothing else, exactly as it does for a running
\* instance.
C17_NonRunningProcessed ==
    \A i \in Tasks : \A m \in PostTokens(pool[i]) :
        (pool[i].state /= "running" /\ ~is_satisfied(pool[i].postrequisites, m)) =>
            LET after   == incoming(pool[i], "NORMAL", m)
                running == incoming([pool[i] EXCEPT !.state = "running"], "NORMAL", m)
            IN  /\ is_satisfied(after.postrequisites, m)
                /\ after.postrequisites = running.postrequisites
                /\ after.state = (IF running.state = "finished" THEN "finished"
                                                                ELSE pool[i].state)
                /\ \A k \in 1..Len(after.postrequisites) :
                      after.postrequisites[k].req /= m =>
                          after.postrequisites[k] = pool[i].postrequisites[k]
                /\ after.prerequisites = pool[i].prerequisites
                /\ after.abdicated = pool[i].abdicated

\* a waiting globalwave two of whose three postrequisites were marked by
\* messages
C17_Witness ==
    \E i \in Tasks :
        /\ pool[i].name = "globalwave"
        /\ pool[i].state = "waiting"
        /\ pool[i].postrequisites[1].sat
        /\ pool[i].postrequisites[2].sat
        /\ ~pool[i].postrequisites[3].sat

\* C18: delivering the message of a postrequisite a second time changes
\* nothing: state, postrequisites, prerequisites and abdication flag after
\* two deliveries are those after one.
C18_DuplicateIdempotent ==
    \A i \in Tasks : \A m \in PostTokens(pool[i]) :
        LET once  == incoming(pool[i], "NORMAL", m)
            twice == incoming(once, "NORMAL", m)
        IN  /\ twice = once
            /\ is_satisfied(pool[i].postrequisites, m) => once = pool[i]

\* a running nztide whose started message has been delivered and may be
\* delivered again
C18_Witness ==
    \E i \in Tasks :
        /\ pool[i].name = "nztide"
        /\ pool[i].state = "running"
        /\ pool[i].postrequisites[1].sat
        /\ ~pool[i].postrequisites[2].sat
        /\ incoming(pool[i], "NORMAL", pool[i].postrequisites[1].req) = pool[i]

\* downloader(2011010100) is alone in the pool
SeededAlone ==
    /\ Len(pool) = 1
    /\ pool[1].name = "downloader"
    /\ pool[1].ref_time = 2011010100
    /\ Len(pool[1].prerequisites) = 0

\* the steps of the scenario of downloader(2011010100) seeded alone: the
\* dispatch step sets it running, the message that satisfies its last
\* postrequisite finishes it, and the abdication step of the finished
\* instance creates downloader(2011010106), waiting
DownloaderSteps ==
    SeededAlone =>
        /\ (phase = "dispatch" /\ idx = 1 /\ pool[1].state = "waiting") =>
               pool'[1].state = "running"
        /\ (phase = "idle" /\ Len(pool') = 1 /\ all_satisfied(pool'[1].postrequisites)) =>
               pool'[1].state = "finished"
        /\ (phase = "abdicate" /\ idx = 1 /\ pool[1].state = "finished"
                /\ ~pool[1].abdicated) =>
               /\ Len(pool') = 2
               /\ pool'[1].abdicated
               /\ pool'[2].name = "downloader"
               /\ pool'[2].ref_time = next_ref_time(valid_hours["downloader"], pool[1])
               /\ pool'[2].ref_time = 2011010106
               /\ pool'[2].state = "waiting"

\* C15 as stated: downloader(2011010100), seeded alone and waiting, is set
\* running by the first dispatch step, is finished once all its
\* postrequisite messages are delivered, and the abdication step that
\* follows creates downloader(2011010106).
C15_Original == [][DownloaderSteps]_vars

\* the scenario of C15 in dummy mode only
C15_DummyMode == [][dummy_clock_rate /= 0 => DownloaderSteps]_vars

\* downloader(2011010100) ran, finished and has its successor beside it
C15_DummyModeWitness ==
    /\ dummy_clock_rate /= 0
    /\ Len(pool) = 2
    /\ pool[1].name = "downloader"
    /\ pool[1].ref_time = 2011010100
    /\ pool[1].abdicated
    /\ pool[2].name = "downloader"
    /\ pool[2].ref_time = 2011010106
    /\ call.op = "os.system"
    /\ call.rt = 2011010106

\* the steps of downloader(t) and nzlam(t), every postrequisite of
\* downloader(t) satisfied: the matching step of nzlam(t) satisfies its
\* three prerequisites, and the dispatch step sets it running unless an
\* earlier nzlam is unfinished
NzlamSteps ==
    \A d \in Tasks : \A n \in Tasks :
        (/\ pool[d].name = "downloader"
         /\ pool[n].name = "nzlam"
         /\ pool[n].ref_time = pool[d].ref_time
         /\ Hour(pool[n].ref_time) \in {0, 6, 12, 18}
         /\ all_satisfied(pool[d].postrequisites)
         /\ idx = n)
        => /\ phase = "match" =>
                /\ Len(pool'[n].prerequisites) = 3
                /\ all_satisfied(pool'[n].prerequisites)
           /\ (phase = "dispatch" /\ pool[n].state = "waiting" /\ ~Blocked(pool[n], pool)) =>
                pool'[n].state = "running"

\* C16 as stated: once downloader(t) has all its postrequisites satisfied,
\* one matching pass satisfies the three prerequisites of nzlam(t) and the
\* dispatch pass of the same tick sets nzlam(t) running.
C16_Original == [][NzlamSteps]_vars

\* the scenario of C16 in dummy mode only
C16_DummyMode == [][dummy_clock_rate /= 0 => NzlamSteps]_vars

\* nzlam(2011010106) runs beside the finished downloader(2011010106)
C16_DummyModeWitness ==
    /\ dummy_clock_rate /= 0
    /\ \E d \in Tasks : \E n \in Tasks :
          /\ pool[d].name = "downloader"
          /\ pool[d].ref_time = 2011010106
          /\ pool[d].state = "finished"
          /\ pool[n].name = "nzlam"
          /\ pool[n].ref_time = 2011010106
          /\ pool[n].state = "running"
          /\ all_satisfied(pool[n].prerequisites)

\* C19 as stated: a dispatch step whose launch reports failure (os.system
\* returns a status other than 0) leaves the instance waiting.
C19_Original ==
    [][(phase = "dispatch" /\ call'.op = "os.system" /\ call'.status /= 0) =>
          pool'[idx].state = "waiting"]_vars

\* messages that name no postrequisite: the abort, signal and vacation
\* messages of a job script
LifecycleMessages ==
    { ProgressMessage,
      Tok("Task job script received signal ", 0, "SIGTERM"),
      Tok("Task job script vacated by signal ", 0, "15") }

\* C23: a message that names none of the postrequisites of an instance
\* (an abort, signal or vacation message) leaves its state, prerequisites,
\* postrequisites and abdicated flag as they are, whatever its priority;
\* a running instance stops running only in a step that marks one of its
\* postrequisites, so it stays running through every tick.
C23_NonPostrequisiteFrame ==
    /\ [](\A i \in Tasks : \A p \in Priorities : \A m \in LifecycleMessages :
            /\ ~requisite_exists(pool[i].postrequisites, m)
            /\ incoming(pool[i], p, m) = pool[i])
    /\ [][\A i \in Tasks : \A j \in 1..Len(pool') :
            (SameTask(i, j) /\ pool[i].state = "running" /\ pool'[j].state /= "running")
            => /\ phase = "idle"
               /\ pool'[j].postrequisites /= pool[i].postrequisites]_vars

\* a running globalprep, one postrequisite marked, that the dispatch pass
\* of a later tick is at
C23_Witness ==
    /\ phase = "dispatch"
    /\ idx <= Len(pool)
    /\ pool[idx].name = "globalprep"
    /\ pool[idx].state = "running"
    /\ pool[idx].postrequisites[1].sat
    /\ ~pool[idx].postrequisites[2].sat
    /\ incoming(pool[idx], "CRITICAL", ProgressMessage) = pool[idx]

\* C29 as stated: the valid_hours list of every class is the one its class
\* body declares, before and after any number of constructions.
C29_Original ==
    \A name \in Classes : valid_hours[name] = DeclaredValidHours(name)

\* C30: the job of an instance is launched at most once: a launch is made
\* only for a waiting instance, which the same step sets running; no
\* instance returns to waiting; the dispatch step of an instance that is
\* running or finished launches nothing and changes nothing.
C30_LaunchedOnce ==
    [][/\ (phase = "dispatch" /\ call'.op = "os.system") =>
            /\ pool[idx].state = "waiting"
            /\ pool'[idx].state = "running"
            /\ call'.name = pool[idx].name
            /\ call'.rt = pool[idx].ref_time
       /\ (phase = "dispatch" /\ idx <= Len(pool)
              /\ pool[idx].state \in {"running", "finished"}) =>
            /\ pool' = pool
            /\ call' = NoCall
       /\ \A i \in Tasks : \A j \in 1..Len(pool') :
            (SameTask(i, j) /\ pool[i].state /= "waiting") => pool'[j].state /= "waiting"
      ]_vars

\* the dispatch pass of a later tick is at nzlam(2011010112), launched
\* before and running
C30_Witness ==
    /\ dummy_clock_rate /= 0
    /\ phase = "dispatch"
    /\ idx <= Len(pool)
    /\ pool[idx].name = "nzlam"
    /\ pool[idx].ref_time = 2011010112
    /\ pool[idx].state = "running"
    /\ pool[idx].postrequisites[1].sat


\* the topnet instances of the pool
TopnetTasks == {i \in Tasks : pool[i].name = "topnet"}

\* C21: topnet.catchup_mode changes in two ways only: from FALSE to TRUE
\* when a topnet instance takes a CATCHUP message for its own reference
\* time, from TRUE to FALSE when it takes an UPTODATE message for its own
\* reference time. Every other message (a signal naming the mode in force, a
\* signal for another reference time, a postrequisite message, a message to
\* an instance of another class) leaves it as it is, and so does every
\* scheduler step.
C21_ModeTransitions ==
    /\ [](\A i \in Tasks : \A m \in MessagesFor(pool[i]) :
            IncomingModeOf(pool[i], catchup_mode, m) =
                IF /\ i \in TopnetTasks
                   /\ m[2] = pool[i].ref_time
                   /\ ~catchup_mode
                   /\ m[1] \in CatchupPrefixes
                  THEN TRUE
                ELSE IF /\ i \in TopnetTasks
                        /\ m[2] = pool[i].ref_time
                        /\ catchup_mode
                        /\ m[1] \in UptodatePrefixes
                  THEN FALSE
                ELSE catchup_mode)
    /\ [][catchup_mode' /= catchup_mode =>
            /\ phase = "idle" /\ phase' = "idle"
            /\ \E i \in TopnetTasks : \E m \in ModeSignals(pool[i]) :
                  /\ m[2] = pool[i].ref_time
                  /\ m[1] \in (IF catchup_mode THEN UptodatePrefixes
                                               ELSE CatchupPrefixes)
                  /\ pool' = [pool EXCEPT ![i] = incoming(pool[i], "NORMAL", m)]]_vars

\* an UPTODATE message to a topnet instance has taken the flag to FALSE
\* and the instance is running
C21_Witness ==
    /\ ~catchup_mode
    /\ \E i \in TopnetTasks : pool[i].state = "running"

\* the satisfied postrequisite tokens of the pool that match a pattern
SatisfiedMatches(tasks, pattern) ==
    UNION {{tasks[j].postrequisites[l].req :
                l \in {n \in 1..Len(tasks[j].postrequisites) :
                          /\ tasks[j].postrequisites[n].sat
                          /\ fuzzy_match(pattern, tasks[j].postrequisites[n].req)}} :
           j \in 1..Len(tasks)}

\* the same instances visited in the opposite order
Reverse(tasks) == [j \in 1..Len(tasks) |-> tasks[Len(tasks) + 1 - j]]

\* C22: on a pool snapshot, get_satisfaction of an instance with a fuzzy
\* prerequisite that is not yet satisfied sharpens it to the greatest
\* satisfied matching token of the whole pool, gives the same result
\* whatever the order the pool is visited in, and a second invocation leaves
\* the result unchanged.
C22_Original ==
    \A i \in Tasks :
        (IsFuzzy(pool[i].prerequisites) /\ ~pool[i].prerequisites[1].sat) =>
            LET found == SatisfiedMatches(pool, pool[i].prerequisites[1].req)
                after == get_satisfaction(pool[i], pool)
            IN  /\ found /= {} =>
                      /\ after.prerequisites[1].sat
                      /\ \A t \in found : t[2] <= after.prerequisites[1].req[2]
                /\ get_satisfaction(pool[i], Reverse(pool)) = after
                /\ get_satisfaction(after, pool) = after

\* C28: a step that changes topnet.catchup_mode leaves the pool's instances
\* and their prerequisites as they are; a topnet instance that a step adds
\* to the pool has the fuzzy prerequisite "file tn_<cutoff>.nc ready",
\* unsatisfied, with cutoff its reference time minus 11 hours when the flag
\* is TRUE at that step and minus 23 hours when it is FALSE.
C28_ModeAffectsFutureInstances ==
    [][/\ catchup_mode' /= catchup_mode =>
            /\ Len(pool') = Len(pool)
            /\ \A i \in Tasks :
                  /\ SameTask(i, i)
                  /\ pool'[i].prerequisites = pool[i].prerequisites
       /\ \A j \in 1..Len(pool') :
            (pool'[j].name = "topnet" /\ ~\E i \in Tasks : SameTask(i, j)) =>
                /\ catchup_mode' = catchup_mode
                /\ pool'[j].prerequisites =
                      << [req   |-> Tok("file tn_",
                                        decrement(pool'[j].ref_time,
                                                  IF catchup_mode THEN 11 ELSE 23),
                                        ".nc ready"),
                          sat   |-> FALSE,
                          fuzzy |-> TRUE] >>]_vars

\* topnet(2011010119), constructed after the flag went to FALSE, waits for a
\* file not older than 2010123120
C28_Witness ==
    /\ ~catchup_mode
    /\ \E j \in TopnetTasks :
          /\ pool[j].ref_time = 2011010119
          /\ pool[j].state = "waiting"
          /\ pool[j].prerequisites[1].req = Tok("file tn_", 2010123120, ".nc ready")
          /\ ~pool[j].prerequisites[1].sat


\* a send is in progress or has returned
Sending == job.status \in {"putting", "returned"}

\* the first k messages of the batch, in batch order
FirstMessages(k) == [m \in 1..k |-> m]

\* C24: a send of a batch makes at most max_tries attempts (7 when the
\* environment does not say otherwise); it stops with the first attempt in
\* which every message is put; it sleeps only after a failed attempt that
\* another attempt follows; after the last failed attempt it returns, with
\* the batch not delivered, and no exception leaves it.
C24_BoundedAttempts ==
    /\ [](MSG_MAX_TRIES = 7 /\ MSG_MAX_TRIES \in MaxTriesValues)
    /\ [](Sending =>
            /\ job.i <= job.max_tries
            /\ job.sleeps + job.failed <= job.i
            /\ job.sleeps <= job.i - 1 \/ job.i = 0
            /\ job.status = "returned" =>
                  \/ job.outcome = "sent" /\ job.put = FirstMessages(job.n)
                  \/ /\ job.outcome = "dropped"
                     /\ job.i = job.max_tries
                     /\ Len(job.put) < job.n
                  \/ job.outcome = "none" /\ job.max_tries = 0 /\ job.put = << >>)
    /\ [][job.status = "putting" =>
            /\ job'.i \in {job.i, job.i + 1}
            /\ job'.i = job.i + 1 =>
                  /\ job'.sleeps + job'.failed = job.sleeps + job.failed + 1
                  /\ Len(job'.prev) < job.n
            /\ job'.put = FirstMessages(job.n) =>
                  job'.status = "returned" /\ job'.outcome = "sent" /\ job'.i = job.i
            /\ job'.sleeps /= job.sleeps =>
                  /\ job'.sleeps = job.sleeps + 1
                  /\ job.i < job.max_tries
                  /\ job'.i = job.i + 1
                  /\ job'.status = "putting"
            /\ job'.status = "returned" => job'.outcome \in {"sent", "dropped"}]_vars

\* seven attempts have failed with six sleeps between them, and the send
\* has returned with the batch dropped
C24_Witness ==
    /\ job.status = "returned"
    /\ job.outcome = "dropped"
    /\ job.max_tries = MSG_MAX_TRIES
    /\ job.i = 7
    /\ job.sleeps = 6
    /\ job.failed = 1
    /\ job.n = 2

\* C26: an attempt that fails with ClientInfoError ends the send: no
\* further attempt is made, whatever the number of tries that remain.
C26_Original ==
    [][(job.status = "putting" /\ job'.exc = "ClientInfoError"
            /\ job'.failed = job.failed + 1)
        => job'.status = "returned" /\ job'.i = job.i]_vars

\* C27: in every attempt the messages put are the first messages of the
\* batch in batch order, each put adding the next one; an attempt that
\* succeeds has put the whole batch; the attempt after a failed one starts
\* with nothing put and goes on from the first message, so that a message
\* put before the failure is put again, and never after a later message of
\* its attempt.
C27_BatchOrder ==
    /\ [](Sending =>
            /\ job.put = FirstMessages(Len(job.put))
            /\ job.prev = FirstMessages(Len(job.prev))
            /\ job.outcome = "sent" => job.put = FirstMessages(job.n)
            /\ job.status = "putting" => job.pos = Len(job.put) + 1 /\ job.pos <= job.n)
    /\ [][job.status = "putting" =>
            /\ job'.i = job.i =>
                  \/ job'.put = Append(job.put, Len(job.put) + 1)
                  \/ job'.put = job.put /\ job'.status = "returned"
            /\ job'.i /= job.i =>
                  /\ job'.i = job.i + 1
                  /\ job'.put = << >>
                  /\ job'.pos = 1
                  /\ job'.prev = job.put
                  /\ Len(job.put) < job.n]_vars

\* the second message failed in one attempt and the next attempt has put
\* both: the first message has been put twice
C27_Witness ==
    /\ job.status = "returned"
    /\ job.outcome = "sent"
    /\ job.i = 2
    /\ job.prev = << 1 >>
    /\ job.put = << 1, 2 >>


\* the positions of the vacation messages in a batch
Vacations(messages) ==
    {k \in 1..Len(messages) : messages[k][1] = VACATION_MESSAGE_PREFIX}

\* C25: when a send writes a vacation message to the job status file, the
\* file it leaves has the CYLC_MESSAGE record of that message on a line
\* before which there is no CYLC_JOB_ line, and before which the lines of
\* the file as it was that are no CYLC_JOB_ lines come first, in their
\* order; the record is the last line when the vacation message is the
\* last of the batch.
C25_VacationRewrite ==
    [][(job'.sends = job.sends + 1 /\ job'.written) =>
         \A k \in Vacations(job'.batch) :
            LET kept   == SelectSeq(job.file, NotJobLine)
                record == MessageLine(job'.sends, "NORMAL", job'.batch[k])
            IN  \E p \in 1..Len(job'.file) :
                  /\ job'.file[p] = record
                  /\ \A q \in 1..(p - 1) : NotJobLine(job'.file[q])
                  /\ Len(kept) < p
                  /\ SubSeq(job'.file, 1, Len(kept)) = kept
                  /\ k = Len(job'.batch) => p = Len(job'.file)]_vars

\* the second send wrote a vacation message to a file that held the line
\* of the job script and the CYLC_JOB_PID and CYLC_JOB_INIT_TIME lines of
\* the first send: the line of the job script and the record are left
C25_Witness ==
    /\ job.status = "file"
    /\ job.sends = 2
    /\ job.written
    /\ job.batch = << Tok(VACATION_MESSAGE_PREFIX, 0, "15") >>
    /\ Len(job.before) = 3
    /\ job.before[2].key = CYLC_JOB_PID
    /\ job.before[3].key = CYLC_JOB_INIT_TIME
    /\ job.file = << job.before[1],
                     MessageLine(2, "NORMAL", Tok(VACATION_MESSAGE_PREFIX, 0, "15")) >>


\* the instances of a class in the pool
InstancesOf(name) == {i \in Tasks : pool[i].name = name}

====
